---- MODULE Spec2Model ----
\* Order transaction core of the bookshop API (createTransaction and the
\* store it commits to), modelled from src/src/controllers/transaction.controller.ts
\* (current revision) and src/src/controllers/genre.controller.ts:321-543
\* (earlier revision of the same handler).
\*
\* Money is counted in whole minor units. A request quantity is the number
\* quantity + (1/2 if half), so that a non-integer quantity can be submitted.
EXTENDS Integers, Sequences, FiniteSets, TLC

\* ---------------------------------------------------------------- bounds
MaxStock == 2
MaxQty == 2
MaxItems == 2

\* ------------------------------------------------------------ the stores
\* the pool of request handlers
Procs == {1, 2}
\* the handlers that serve the catalogue requests
Admins == {1, 2}
BookIds == {"b1", "b2"}
UnknownBook == "b3"
Users == {"u1"}
UnknownUser == "u2"
Prices == [b \in BookIds |-> IF b = "b1" THEN 2 ELSE 3]
Genres == [b \in BookIds |-> IF b = "b1" THEN "g1" ELSE "g2"]
GenreIds == {"g1", "g2"}
Titles == [b \in BookIds |-> b]
Revisions == {"current", "earlier"}

VARIABLES
  revision,      \* which revision of createTransaction is deployed
  users,         \* User rows (ids)
  books,         \* Book rows: id -> [title, price, stock_quantity, genre_id, deleted_at]
  orders,        \* committed Order rows
  order_items,   \* committed OrderItem rows
  locks,         \* per Book row, the open transactions holding its row lock
  pc,            \* position of each request handler
  req,           \* req.body of the request a handler is serving
  bookMap,       \* books read by the handler at validation time
  tx,            \* uncommitted writes and locals of the handler's $transaction
  resp,          \* the response sent by the handler
  admin,         \* the createBook / updateBook / deleteBook handlers: position, locals
  reader,        \* the read handler: position, what its queries returned, response
  auth,          \* the protect middleware: position, header, token, req.user, outcome
  initialStock,  \* history: stock of every book before any request
  rolledBack     \* history: the uncommitted writes a failed $transaction discarded

vars == <<revision, users, books, orders, order_items, locks,
          pc, req, bookMap, tx, resp, admin, reader, auth, initialStock, rolledBack>>

store == <<books, orders, order_items>>

\* --------------------------------------------------------------- requests
Item(b, q, h) == [book_id |-> b, quantity |-> q, half |-> h]

GoodItems == {Item(b, q, FALSE) : b \in BookIds, q \in 1..MaxQty}
OddItems == {Item(UnknownBook, 1, FALSE), Item("b1", 0, FALSE),
             Item("b1", 1, TRUE), Item("", 1, FALSE)}

SeqsUpTo(S, n) == UNION {[1..k -> S] : k \in 0..n}

BookIdsOf(items) == {items[i].book_id : i \in 1..Len(items)}

RECURSIVE RequestedUpTo(_, _, _)
RequestedUpTo(items, b, n) ==
  IF n = 0 THEN 0
  ELSE RequestedUpTo(items, b, n - 1)
       + (IF items[n].book_id = b THEN items[n].quantity ELSE 0)

\* the quantity of book b a request asks for, over all its lines
Requested(r, b) == RequestedUpTo(r.items, b, Len(r.items))

\* requests submitted while several handlers run: well-formed orders
Requests ==
  [user_id : Users,
   items : {s \in SeqsUpTo(GoodItems, MaxItems) :
              Len(s) > 0 /\ Cardinality(BookIdsOf(s)) = Len(s)}]

\* every shape of request body
AllRequests ==
  [user_id : Users \cup {UnknownUser, ""},
   items : SeqsUpTo(GoodItems \cup OddItems, MaxItems)]

NoReq == [user_id |-> "", items |-> <<>>]

\* -------------------------------------------------------------- responses
NoResp ==
  [status |-> 0, kind |-> "none", a |-> 0, b |-> 0, c |-> 0, ids |-> {}, lines |-> {}, error |-> ""]
Reject(status, kind) ==
  [status |-> status, kind |-> kind, a |-> 0, b |-> 0, c |-> 0, ids |-> {},
   lines |-> {}, error |-> ""]
\* 'One or more books not found', debug.missingIds
BooksNotFound(missing) ==
  [status |-> 404, kind |-> "BooksNotFound", a |-> 0, b |-> 0, c |-> 0, ids |-> missing,
   lines |-> {}, error |-> ""]
\* 'Insufficient stock for book: ids. Available: a, Requested: b'
Insufficient(book, avail, wanted) ==
  [status |-> 400, kind |-> "InsufficientStock", a |-> avail, b |-> wanted, c |-> 0,
   ids |-> {book}, lines |-> {}, error |-> ""]
\* data: { transaction_id: a, total_quantity: b, total_price: c }
Created(id, qty, price) ==
  [status |-> 201, kind |-> "Created", a |-> id, b |-> qty, c |-> price, ids |-> {},
   lines |-> {}, error |-> ""]
\* data: order, the row read back inside the transaction with its order_items
CreatedOrder(order, rows) ==
  [status |-> 201, kind |-> "Created", a |-> order.id, b |-> 0, c |-> order.total_price,
   ids |-> {}, lines |-> rows, error |-> ""]

\* an open $transaction: the rows it wrote and has not committed (orders, items,
\* stock of the books it updated), and the locals of its callback
NoTx == [orders |-> {}, items |-> {}, touched |-> {},
         stock |-> [b \in BookIds |-> 0],
         orderId |-> 0, totalPrice |-> 0, totalQuantity |-> 0, idx |-> 0]

NoBooks == [b \in {} |-> 0]

\* the fields of an updateBook body; "" and 0 stand for a field left out
NoData == [title |-> "", price |-> 0, genre_id |-> ""]

\* a createBook / updateBook / deleteBook handler at rest; status: its last
\* response, op and book_id: the request that got it; n counts the requests served.
\* history: late, the book was already removed when the request came
NoAdmin ==
  [pc |-> "idle", op |-> "none", book_id |-> "", data |-> NoData, status |-> 0,
   late |-> FALSE, n |-> 0]

\* req.query of getAllTransactions; "" stands for a parameter left out
NoQuery == [page |-> 0, limit |-> 0, orderByAmount |-> ""]

\* meta of the response of getAllTransactions; 0 stands for null
NoMeta == [page |-> 0, limit |-> 0, total |-> 0, total_pages |-> 0,
           prev_page |-> 0, next_page |-> 0]

\* what a read handler answers; "" stands for null
NoResult ==
  [op |-> "none", status |-> 0, id |-> 0, items |-> {}, total_quantity |-> 0,
   total_price |-> 0, count |-> 0, average |-> 0, most |-> "", fewest |-> "",
   torn |-> FALSE, query |-> NoQuery, page |-> <<>>, meta |-> NoMeta,
   book_id |-> "", found |-> {}]

\* the read handler at rest. pending: the queries of a Promise.all not yet answered;
\* orderStats, orderItems, bookGenres, joined, listed, total: what the answered
\* ones returned;
\* res, prev: its last two responses; n: the requests it served.
\* history: at, prevAt hold the store each response was read from; torn: the
\* queries of one request read different stores
NoReader ==
  [pc |-> "idle", pending |-> {}, orderStats |-> [count |-> 0, sum |-> 0],
   orderItems |-> {}, bookGenres |-> {}, joined |-> {}, listed |-> {}, total |-> 0,
   query |-> NoQuery, rows |-> <<>>, genre |-> "", bookRows |-> {},
   seen |-> {}, torn |-> FALSE,
   res |-> NoResult, at |-> {}, prev |-> NoResult, prevAt |-> {}, n |-> 0]

\* what makes a query of a $transaction or its commit throw
StoreFailures == {"timeout", "unreachable"}

\* error.message of what Prisma throws then
ErrorMessage(f) ==
  IF f = "timeout"
  THEN "Transaction API error: Transaction already closed: the timeout was 15000 ms"
  ELSE "Invalid `prisma.book.update()` invocation: can't reach database server"

\* the catch block: 'Internal server error', error: error.message
InternalError(f) == [Reject(500, "InternalError") EXCEPT !.error = ErrorMessage(f)]

\* ---------------------------------------------------------------- protect
\* the token after 'Bearer' in the Authorization header: how jwt.verify takes it
\* and the payload it carries
TokenKinds == {"valid", "expired", "forged", "malformed"}
Schemes == {"Bearer", "Basic", "bearer"}
\* no token: split(' ')[1] of a header with nothing after the scheme
NoToken == [kind |-> "none", id |-> "", role |-> ""]
Roles == {"CUSTOMER", "ADMIN"}
\* the payload signed by generateToken is { id, role }
Tokens == [kind : TokenKinds, id : Users \cup {UnknownUser}, role : Roles]
NoHeader == [scheme |-> "none", token |-> NoToken]
\* req.headers.authorization
Headers == {NoHeader} \cup [scheme : Schemes, token : Tokens \cup {NoToken}]

NoAuth ==
  [pc |-> "idle", header |-> NoHeader, token |-> NoToken, decoded |-> "",
   user |-> "", nexts |-> 0, sent |-> 0, status |-> 0, message |-> "",
   failure |-> "none"]

\* ------------------------------------------------------------------- Init
\* no handler has a request
InitIdle ==
  /\ admin = [a \in Admins |-> NoAdmin]
  /\ reader = NoReader
  /\ auth = NoAuth
  /\ users = Users
  /\ locks = [b \in BookIds |-> {}]
  /\ pc = [p \in Procs |-> "idle"]
  /\ req = [p \in Procs |-> NoReq]
  /\ bookMap = [p \in Procs |-> NoBooks]
  /\ tx = [p \in Procs |-> NoTx]
  /\ resp = [p \in Procs |-> NoResp]
  /\ rolledBack = [p \in Procs |-> NoTx]

\* no handler has a request and no order was placed
InitHandlers ==
  /\ InitIdle
  /\ orders = {}
  /\ order_items = {}

BookRows(st, del) ==
  [b \in BookIds |-> [title |-> Titles[b], price |-> Prices[b],
                      stock_quantity |-> st[b],
                      genre_id |-> Genres[b], deleted_at |-> del[b]]]

\* live books with any stock
LiveShelf ==
  /\ initialStock \in [BookIds -> 0..MaxStock]
  /\ books = BookRows(initialStock, [b \in BookIds |-> FALSE])

\* any stock, and books that were soft-deleted earlier
AnyShelf ==
  /\ initialStock \in [BookIds -> 0..MaxStock]
  /\ \E del \in [BookIds -> BOOLEAN] : books = BookRows(initialStock, del)

Init == revision = "current" /\ LiveShelf /\ InitHandlers

InitEarlier == revision = "earlier" /\ LiveShelf /\ InitHandlers

InitValidate == revision = "current" /\ AnyShelf /\ InitHandlers

\* ------------------------------------------- createTransaction: validation
\* the number an item's quantity stands for, doubled
Twice(it) == 2 * it.quantity + (IF it.half THEN 1 ELSE 0)

\* mutant: a quantity of 0 is let through
ItemInvalidBelowZero(it) == it.book_id = "" \/ Twice(it) < 0

\* !item.book_id || !item.quantity || typeof item.quantity !== 'number' || item.quantity <= 0
ItemInvalid(it) == it.book_id = "" \/ Twice(it) = 0 \/ Twice(it) <= 0

\* !Number.isInteger(item.quantity)
ItemNotInteger(it) == it.half

\* the for loop over the items: the first item that fails either test decides
ItemsCheck(items) ==
  LET bad == {i \in 1..Len(items) : ItemInvalid(items[i]) \/ ItemNotInteger(items[i])}
      first == CHOOSE i \in bad : \A j \in bad : i <= j
  IN IF bad = {} THEN NoResp
     ELSE IF ItemInvalid(items[first]) THEN Reject(400, "InvalidItem")
     ELSE Reject(400, "QuantityNotInteger")

\* mutant: no duplicate test
NeverDuplicateBooks(items) == FALSE

\* uniquebook_ids.size !== book_ids.length
HasDuplicateBooks(items) == Cardinality(BookIdsOf(items)) # Len(items)

\* mutant: the duplicate test is made before the loop over the items
ValidateBodyDuplicatesFirst(r) ==
  IF r.user_id = "" THEN Reject(400, "UserIdRequired")
  ELSE IF Len(r.items) = 0 THEN Reject(400, "ItemsRequired")
  ELSE IF HasDuplicateBooks(r.items) THEN Reject(400, "DuplicateBooks")
  ELSE IF ItemsCheck(r.items) # NoResp THEN ItemsCheck(r.items)
  ELSE NoResp

\* the checks made on the body before the first query; NoResp when all pass
ValidateBody(r) ==
  IF r.user_id = "" THEN Reject(400, "UserIdRequired")
  ELSE IF Len(r.items) = 0 THEN Reject(400, "ItemsRequired")
  ELSE IF ItemsCheck(r.items) # NoResp THEN ItemsCheck(r.items)
  ELSE IF HasDuplicateBooks(r.items) THEN Reject(400, "DuplicateBooks")
  ELSE NoResp

\* prisma.book.findMany({ where: { id: { in: book_ids }, deleted_at: null } })
FindBooksByIds(ids) == {b \in DOMAIN books : b \in ids /\ ~books[b].deleted_at}

\* mutant: the stock loop refuses a line that asks for all that is left
StockCheckKeepingOne(items, found) ==
  LET short == {i \in 1..Len(items) :
                  found[items[i].book_id].stock_quantity <= items[i].quantity}
      first == CHOOSE i \in short : \A j \in short : i <= j
  IN IF short = {} THEN NoResp
     ELSE Insufficient(items[first].book_id,
                       found[items[first].book_id].stock_quantity,
                       items[first].quantity)

\* the stock loop over the items against the books just read
StockCheck(items, found) ==
  LET short == {i \in 1..Len(items) :
                  found[items[i].book_id].stock_quantity < items[i].quantity}
      first == CHOOSE i \in short : \A j \in short : i <= j
  IN IF short = {} THEN NoResp
     ELSE Insufficient(items[first].book_id,
                       found[items[first].book_id].stock_quantity,
                       items[first].quantity)

\* the checks made on the books read; NoResp when all pass
ValidateBooks(items, found) ==
  IF Cardinality(DOMAIN found) # Len(items)
  THEN BooksNotFound(BookIdsOf(items) \ DOMAIN found)
  ELSE StockCheck(items, found)

\* --------------------------------------------------- createTransaction: steps
Respond(p, r) ==
  /\ resp' = [resp EXCEPT ![p] = r]
  /\ pc' = [pc EXCEPT ![p] = "done"]
  /\ bookMap' = [bookMap EXCEPT ![p] = NoBooks]
  /\ tx' = [tx EXCEPT ![p] = NoTx]

\* mutant: a body equal to that of a request already committed is answered with
\* the response of that request
ReceiveDeduplicating(p, r) ==
  /\ pc[p] = "idle"
  /\ req' = [req EXCEPT ![p] = r]
  /\ IF \E q \in Procs : pc[q] = "done" /\ resp[q].kind = "Created" /\ req[q] = r
     THEN Respond(p, resp[CHOOSE q \in Procs :
                            pc[q] = "done" /\ resp[q].kind = "Created" /\ req[q] = r])
     ELSE IF ValidateBody(r) # NoResp
     THEN Respond(p, ValidateBody(r))
     ELSE /\ pc' = [pc EXCEPT ![p] = "findUser"]
          /\ UNCHANGED <<resp, bookMap, tx>>
  /\ UNCHANGED <<admin, reader, auth, revision, users, store, locks, initialStock, rolledBack>>

\* the request arrives and the handler runs up to its first query
Receive(p, r) ==
  /\ pc[p] = "idle"
  /\ req' = [req EXCEPT ![p] = r]
  /\ IF ValidateBody(r) # NoResp
     THEN Respond(p, ValidateBody(r))
     ELSE /\ pc' = [pc EXCEPT ![p] = "findUser"]
          /\ UNCHANGED <<resp, bookMap, tx>>
  /\ UNCHANGED <<admin, reader, auth, revision, users, store, locks, initialStock, rolledBack>>

\* prisma.user.findUnique
FindUser(p) ==
  /\ pc[p] = "findUser"
  /\ IF req[p].user_id \notin users
     THEN Respond(p, Reject(404, "UserNotFound"))
     ELSE /\ pc' = [pc EXCEPT ![p] = "findBooks"]
          /\ UNCHANGED <<resp, bookMap, tx>>
  /\ UNCHANGED <<admin, reader, auth, revision, users, store, locks, req, initialStock, rolledBack>>

\* mutant: the stock loop takes each line's quantity off the shelf as it passes
\* it, so the lines before a failing one stay decremented
FindBooksReserving(p) ==
  /\ pc[p] = "findBooks"
  /\ LET items == req[p].items
         found == [b \in FindBooksByIds(BookIdsOf(items)) |-> books[b]]
         verdict == ValidateBooks(items, found)
         passed == IF verdict.kind = "InsufficientStock"
                   THEN {i \in 1..Len(items) :
                           \A j \in 1..i :
                             found[items[j].book_id].stock_quantity >= items[j].quantity}
                   ELSE {}
     IN /\ books' = [b \in DOMAIN books |->
                       IF \E i \in passed : items[i].book_id = b
                       THEN [books[b] EXCEPT !.stock_quantity = @ - Requested(req[p], b)]
                       ELSE books[b]]
        /\ IF verdict # NoResp
           THEN Respond(p, verdict)
           ELSE /\ pc' = [pc EXCEPT ![p] = "txCreate"]
                /\ bookMap' = [bookMap EXCEPT ![p] = found]
                /\ UNCHANGED <<resp, tx>>
  /\ UNCHANGED <<admin, reader, auth, revision, users, orders, order_items, locks, req, initialStock,
                 rolledBack>>

\* prisma.book.findMany, then the checks on what it returned
FindBooks(p) ==
  /\ pc[p] = "findBooks"
  /\ LET found == [b \in FindBooksByIds(BookIdsOf(req[p].items)) |-> books[b]]
         verdict == ValidateBooks(req[p].items, found)
     IN IF verdict # NoResp
        THEN Respond(p, verdict)
        ELSE /\ pc' = [pc EXCEPT ![p] = "txCreate"]
             /\ bookMap' = [bookMap EXCEPT ![p] = found]
             /\ UNCHANGED <<resp, tx>>
  /\ UNCHANGED <<admin, reader, auth, revision, users, store, locks, req, initialStock, rolledBack>>

\* ------------------------------------------- createTransaction: $transaction
InTx == {"txItem", "txStock", "txTotal", "txCommit"}

RECURSIVE SumPricePerLine(_, _, _)
\* mutant: totalPrice += book.price, the quantity left out
SumPricePerLine(items, found, n) ==
  IF n = 0 THEN 0
  ELSE SumPricePerLine(items, found, n - 1) + found[items[n].book_id].price

RECURSIVE SumPrice(_, _, _)
\* totalPrice += book.price.toNumber() * item.quantity, over items[1..n]
SumPrice(items, found, n) ==
  IF n = 0 THEN 0
  ELSE SumPrice(items, found, n - 1) + found[items[n].book_id].price * items[n].quantity

RECURSIVE SumQuantity(_, _)
\* totalQuantity += item.quantity, over items[1..n]
SumQuantity(items, n) ==
  IF n = 0 THEN 0 ELSE SumQuantity(items, n - 1) + items[n].quantity

\* the id a new Order row gets: one that no row has or had
FreshOrderId ==
  LET used == {o.id : o \in orders} \cup {tx[p].orderId : p \in Procs}
                \cup {rolledBack[p].orderId : p \in Procs}
  IN 1 + CHOOSE m \in used \cup {0} : \A n \in used : n <= m

\* orderItemsData.push({ book_id, quantity, price: book.price })
OrderItemRow(id, items, found, i) ==
  [order_id |-> id, line |-> i, book_id |-> items[i].book_id,
   quantity |-> items[i].quantity, price |-> found[items[i].book_id].price]

\* current revision: the totals, then tx.order.create with its nested order_items
CreateOrderWithItems(p) ==
  LET items == req[p].items
      id == FreshOrderId
      totalPrice == SumPrice(items, bookMap[p], Len(items))
  IN /\ tx' = [tx EXCEPT ![p] =
                 [NoTx EXCEPT
                    !.orders = {[id |-> id, user_id |-> req[p].user_id,
                                 total_price |-> totalPrice]},
                    !.items = {OrderItemRow(id, items, bookMap[p], i) :
                                 i \in 1..Len(items)},
                    !.orderId = id,
                    !.totalPrice = totalPrice,
                    !.totalQuantity = SumQuantity(items, Len(items)),
                    !.idx = 1]]
     /\ pc' = [pc EXCEPT ![p] = "txStock"]

\* earlier revision: tx.order.create with total_price 0 and no items
CreateEmptyOrder(p) ==
  LET id == FreshOrderId
  IN /\ tx' = [tx EXCEPT ![p] =
                 [NoTx EXCEPT
                    !.orders = {[id |-> id, user_id |-> req[p].user_id,
                                 total_price |-> 0]},
                    !.orderId = id,
                    !.idx = 1]]
     /\ pc' = [pc EXCEPT ![p] = "txItem"]

\* mutant: the order is created on prisma instead of tx, so the row (in the
\* current revision with its items) is committed at once
CreateOrderOutsideTx(p) ==
  /\ pc[p] = "txCreate"
  /\ LET items == req[p].items
         id == FreshOrderId
         total == IF revision = "current"
                  THEN SumPrice(items, bookMap[p], Len(items)) ELSE 0
         rows == IF revision = "current"
                 THEN {OrderItemRow(id, items, bookMap[p], i) : i \in 1..Len(items)}
                 ELSE {}
     IN /\ orders' = orders \cup {[id |-> id, user_id |-> req[p].user_id,
                                   total_price |-> total]}
        /\ order_items' = order_items \cup rows
        /\ tx' = [tx EXCEPT ![p] =
                    [NoTx EXCEPT !.orderId = id,
                                 !.totalPrice = total,
                                 !.totalQuantity = IF revision = "current"
                                                   THEN SumQuantity(items, Len(items))
                                                   ELSE 0,
                                 !.idx = 1]]
        /\ pc' = [pc EXCEPT ![p] = IF revision = "current" THEN "txStock" ELSE "txItem"]
  /\ UNCHANGED <<admin, reader, auth, revision, users, books, locks, req, bookMap, resp, initialStock,
                 rolledBack>>

\* prisma.$transaction begins and the order row is written
TxCreateOrder(p) ==
  /\ pc[p] = "txCreate"
  /\ IF revision = "current" THEN CreateOrderWithItems(p) ELSE CreateEmptyOrder(p)
  /\ UNCHANGED <<admin, reader, auth, revision, users, store, locks, req, bookMap, resp,
                 initialStock, rolledBack>>

\* earlier revision: tx.orderItem.create for the next item
TxCreateItem(p) ==
  /\ pc[p] = "txItem"
  /\ LET items == req[p].items
         i == tx[p].idx
         row == OrderItemRow(tx[p].orderId, items, bookMap[p], i)
     IN tx' = [tx EXCEPT ![p].items = @ \cup {row},
                         ![p].totalPrice = @ + row.price * row.quantity,
                         ![p].totalQuantity = @ + row.quantity]
  /\ pc' = [pc EXCEPT ![p] = "txStock"]
  /\ UNCHANGED <<admin, reader, auth, revision, users, store, locks, req, bookMap, resp,
                 initialStock, rolledBack>>

\* the value of a Book row's stock as the transaction of p sees it
StockSeenBy(p, b) ==
  IF b \in tx[p].touched THEN tx[p].stock[b] ELSE books[b].stock_quantity

\* mutant: the stock written is computed from the row read at validation time
DecrementFromSnapshot(p, b, q) == bookMap[p][b].stock_quantity - q

\* stock_quantity: { decrement: item.quantity } on the row as it is when updated
DecrementedStock(p, b, q) == StockSeenBy(p, b) - q

\* where the handler goes after the stock update of item i
AfterStockUpdate(p, i) ==
  IF i < Len(req[p].items)
  THEN (IF revision = "current" THEN "txStock" ELSE "txItem")
  ELSE (IF revision = "current" THEN "txCommit" ELSE "txTotal")

\* mutant: the update is sent on prisma instead of tx, so it commits on its own
UpdateStockOutsideTx(p) ==
  /\ pc[p] = "txStock"
  /\ LET i == tx[p].idx
         b == req[p].items[i].book_id
         q == req[p].items[i].quantity
     IN /\ locks[b] = {}
        /\ books' = [books EXCEPT ![b].stock_quantity = @ - q]
        /\ tx' = [tx EXCEPT ![p].idx = i + 1]
        /\ pc' = [pc EXCEPT ![p] = AfterStockUpdate(p, i)]
  /\ UNCHANGED <<admin, reader, auth, revision, users, orders, order_items, locks, req, bookMap, resp,
                 initialStock, rolledBack>>

\* tx.book.update of the next item: waits for the row, writes it uncommitted
TxUpdateStock(p) ==
  /\ pc[p] = "txStock"
  /\ LET i == tx[p].idx
         b == req[p].items[i].book_id
         q == req[p].items[i].quantity
     IN /\ locks[b] \subseteq {p}
        /\ locks' = [locks EXCEPT ![b] = {p}]
        /\ tx' = [tx EXCEPT ![p].touched = @ \cup {b},
                            ![p].stock[b] = DecrementedStock(p, b, q),
                            ![p].idx = i + 1]
        /\ pc' = [pc EXCEPT ![p] = AfterStockUpdate(p, i)]
  /\ UNCHANGED <<admin, reader, auth, revision, users, store, req, bookMap, resp, initialStock, rolledBack>>

\* earlier revision: tx.order.update({ data: { total_price: totalPrice } })
TxUpdateTotal(p) ==
  /\ pc[p] = "txTotal"
  /\ tx' = [tx EXCEPT ![p].orders =
              {[o EXCEPT !.total_price = tx[p].totalPrice] : o \in @}]
  /\ pc' = [pc EXCEPT ![p] = "txCommit"]
  /\ UNCHANGED <<admin, reader, auth, revision, users, store, locks, req, bookMap, resp,
                 initialStock, rolledBack>>

ReleaseLocks(p) ==
  locks' = [b \in BookIds |-> locks[b] \ {p}]

\* the callback returned: the transaction commits and 201 is sent
TxCommit(p) ==
  /\ pc[p] = "txCommit"
  /\ orders' = orders \cup tx[p].orders
  /\ order_items' = order_items \cup tx[p].items
  /\ books' = [b \in DOMAIN books |->
                 IF b \in tx[p].touched
                 THEN [books[b] EXCEPT !.stock_quantity = tx[p].stock[b]]
                 ELSE books[b]]
  /\ ReleaseLocks(p)
  /\ Respond(p, IF revision = "current"
                THEN Created(tx[p].orderId, tx[p].totalQuantity, tx[p].totalPrice)
                ELSE CreatedOrder(CHOOSE o \in tx[p].orders : TRUE, tx[p].items))
  /\ UNCHANGED <<admin, reader, auth, revision, users, req, initialStock, rolledBack>>

\* mutant: the failure leaves the rows written so far in the store
TxAbortKeepsOrder(p) ==
  /\ pc[p] \in InTx
  /\ ReleaseLocks(p)
  /\ orders' = orders \cup tx[p].orders
  /\ order_items' = order_items \cup tx[p].items
  /\ \E f \in StoreFailures : Respond(p, InternalError(f))
  /\ rolledBack' = [rolledBack EXCEPT ![p] = tx[p]]
  /\ UNCHANGED <<admin, reader, auth, revision, users, books, req, initialStock>>

\* a query or the commit fails (store unavailable, timeout of 15000 ms, deadlock):
\* the transaction rolls back and the catch block sends 500
TxAbort(p) ==
  /\ pc[p] \in InTx
  /\ ReleaseLocks(p)
  /\ \E f \in StoreFailures : Respond(p, InternalError(f))
  /\ rolledBack' = [rolledBack EXCEPT ![p] = tx[p]]
  /\ UNCHANGED <<admin, reader, auth, revision, users, store, req, initialStock>>

\* ------------------------------------- createBook, updateBook, deleteBook
\* values an updateBook body may carry
NewTitle == "t9"
PriceChoices == {5}
Updates == [title : {"", NewTitle}, price : {0} \cup PriceChoices,
            genre_id : {""} \cup GenreIds]

MaxEdits == 2

\* the ids the store gives to the rows that createBook inserts
NewBookIds == {"n1", "n2", "n3", "n4", "n5", "n6"}

\* the handler answered: it is ready for the next request
AdminDone(a, status) ==
  [NoAdmin EXCEPT !.status = status, !.n = admin[a].n + 1, !.op = admin[a].op,
                  !.book_id = admin[a].book_id, !.late = admin[a].late]

\* a request for book b is taken up; late: the book was removed before it came
AdminTakes(a, op, b, d) ==
  [admin[a] EXCEPT !.op = op, !.book_id = b, !.data = d,
                   !.late = IF b \in DOMAIN books THEN books[b].deleted_at ELSE FALSE]

\* Book.title is a unique field of the table (it is the key of findUnique): no
\* second row, removed or not, can be written with the title of another row
TitleIndexed(t, b) == \E x \in DOMAIN books : x # b /\ books[x].title = t

\* prisma.book.findUnique({ where: { title } }) finds a book that is not deleted
TitleTaken(t) == \E b \in DOMAIN books : books[b].title = t /\ ~books[b].deleted_at

\* createBook up to its first query: a missing field -> 400
CreateReceive(a, t) ==
  /\ admin[a].pc = "idle"
  /\ admin[a].n < MaxEdits
  /\ LET r == AdminTakes(a, "create", "", [NoData EXCEPT !.title = t])
     IN admin' = [admin EXCEPT ![a] =
                    IF t = "" THEN [AdminDone(a, 400) EXCEPT !.op = "create", !.book_id = ""]
                    ELSE [r EXCEPT !.pc = "crtFind"]]
  /\ UNCHANGED <<reader, auth, revision, users, store, locks, pc, req, bookMap, tx, resp,
                 initialStock, rolledBack>>

\* existingBook && !existingBook.deleted_at -> 400 (the genre given exists)
CreateFind(a) ==
  /\ admin[a].pc = "crtFind"
  /\ admin' = [admin EXCEPT ![a] =
                 IF TitleTaken(admin[a].data.title) THEN AdminDone(a, 400)
                 ELSE [@ EXCEPT !.pc = "crtWrite"]]
  /\ UNCHANGED <<reader, auth, revision, users, store, locks, pc, req, bookMap, tx, resp,
                 initialStock, rolledBack>>

\* prisma.book.create({ data }): the row is inserted under a new id, or the
\* insert is refused for the title and the catch block sends 500
CreateWrite(a) ==
  /\ admin[a].pc = "crtWrite"
  /\ LET t == admin[a].data.title
         id == CHOOSE n \in NewBookIds : n \notin DOMAIN books
         row == [title |-> t, price |-> 5, stock_quantity |-> 0, genre_id |-> "g1",
                 deleted_at |-> FALSE]
     IN IF TitleIndexed(t, "")
        THEN /\ admin' = [admin EXCEPT ![a] = AdminDone(a, 500)]
             /\ UNCHANGED books
        ELSE /\ admin' = [admin EXCEPT ![a] = [AdminDone(a, 201) EXCEPT !.book_id = id]]
             /\ books' = [b \in DOMAIN books \cup {id} |->
                            IF b = id THEN row ELSE books[b]]
  /\ UNCHANGED <<reader, auth, revision, users, orders, order_items, locks, pc, req, bookMap,
                 tx, resp, initialStock, rolledBack>>

\* updateBook up to its first query: Object.keys(updateData).length === 0 -> 400
UpdateReceive(a, b, d) ==
  /\ admin[a].pc = "idle"
  /\ admin[a].n < MaxEdits
  /\ LET r == AdminTakes(a, "update", b, d)
     IN admin' = [admin EXCEPT ![a] =
                    IF d = NoData
                    THEN [AdminDone(a, 400) EXCEPT !.op = r.op, !.book_id = r.book_id,
                                                   !.late = r.late]
                    ELSE [r EXCEPT !.pc = "updFind"]]
  /\ UNCHANGED <<reader, auth, revision, users, store, locks, pc, req, bookMap, tx, resp,
                 initialStock, rolledBack>>

\* sanitizedData: only the fields given that differ from the row just read
SanitizedData(d, book) ==
  [title |-> IF d.title # book.title THEN d.title ELSE "",
   price |-> IF d.price # book.price THEN d.price ELSE 0,
   genre_id |-> IF d.genre_id # book.genre_id THEN d.genre_id ELSE ""]

\* prisma.book.findFirst({ id, deleted_at: null }), the title and genre lookups,
\* and the comparison with the row read
UpdateFind(a) ==
  /\ admin[a].pc = "updFind"
  /\ LET book == books[admin[a].book_id]
         d == admin[a].data
     IN admin' = [admin EXCEPT ![a] =
          IF book.deleted_at THEN AdminDone(a, 404)
          ELSE IF d.title # "" /\ d.title # book.title /\ TitleTaken(d.title)
          THEN AdminDone(a, 400)
          ELSE IF SanitizedData(d, book) = NoData THEN AdminDone(a, 400)
          ELSE [@ EXCEPT !.pc = "updWrite", !.data = SanitizedData(d, book)]]
  /\ UNCHANGED <<reader, auth, revision, users, store, locks, pc, req, bookMap, tx, resp,
                 initialStock, rolledBack>>

\* prisma.book.update({ where: { id }, data: sanitizedData }): waits for the row;
\* a title that another row has is refused and the catch block sends 500
UpdateWrite(a) ==
  /\ admin[a].pc = "updWrite"
  /\ locks[admin[a].book_id] = {}
  /\ LET d == admin[a].data
     IN IF d.title # "" /\ TitleIndexed(d.title, admin[a].book_id)
        THEN /\ admin' = [admin EXCEPT ![a] = AdminDone(a, 500)]
             /\ UNCHANGED books
        ELSE /\ books' = [books EXCEPT
                    ![admin[a].book_id] =
                      [@ EXCEPT !.title = IF d.title # "" THEN d.title ELSE @,
                                !.price = IF d.price # 0 THEN d.price ELSE @,
                                !.genre_id = IF d.genre_id # "" THEN d.genre_id ELSE @]]
             /\ admin' = [admin EXCEPT ![a] = AdminDone(a, 200)]
  /\ UNCHANGED <<reader, auth, revision, users, orders, order_items, locks, pc, req, bookMap,
                 tx, resp, initialStock, rolledBack>>

\* deleteBook up to its first query
DeleteReceive(a, b) ==
  /\ admin[a].pc = "idle"
  /\ admin[a].n < MaxEdits
  /\ admin' = [admin EXCEPT ![a] = [AdminTakes(a, "delete", b, NoData) EXCEPT
                                      !.pc = "delFind"]]
  /\ UNCHANGED <<reader, auth, revision, users, store, locks, pc, req, bookMap, tx, resp,
                 initialStock, rolledBack>>

\* prisma.book.findFirst({ id, deleted_at: null })
DeleteFind(a) ==
  /\ admin[a].pc = "delFind"
  /\ admin' = [admin EXCEPT ![a] =
                 IF books[admin[a].book_id].deleted_at THEN AdminDone(a, 404)
                 ELSE [@ EXCEPT !.pc = "delWrite"]]
  /\ UNCHANGED <<reader, auth, revision, users, store, locks, pc, req, bookMap, tx, resp,
                 initialStock, rolledBack>>

\* prisma.book.update({ where: { id }, data: { deleted_at: new Date() } })
DeleteWrite(a) ==
  /\ admin[a].pc = "delWrite"
  /\ locks[admin[a].book_id] = {}
  /\ books' = [books EXCEPT ![admin[a].book_id].deleted_at = TRUE]
  /\ admin' = [admin EXCEPT ![a] = AdminDone(a, 200)]
  /\ UNCHANGED <<reader, auth, revision, users, orders, order_items, locks, pc, req, bookMap,
                 tx, resp, initialStock, rolledBack>>

\* ------------------------------------------------------- the read handlers
MaxReads == 2

RECURSIVE SumTotalPrice(_)
\* _sum: { total_price: true } over a set of Order rows
SumTotalPrice(os) ==
  IF os = {} THEN 0
  ELSE LET o == CHOOSE x \in os : TRUE IN o.total_price + SumTotalPrice(os \ {o})

RECURSIVE SumLineQuantity(_)
\* _sum: { quantity: true }, reduce((sum, item) => sum + item.quantity, 0)
SumLineQuantity(rows) ==
  IF rows = {} THEN 0
  ELSE LET l == CHOOSE x \in rows : TRUE IN l.quantity + SumLineQuantity(rows \ {l})

\* a field of a response that is not there
NoBook == [title |-> "", price |-> 0, stock_quantity |-> 0, genre_id |-> "",
           deleted_at |-> FALSE]

\* the response is sent; the handler is ready for the next request
ReaderDone(result, from) ==
  [NoReader EXCEPT !.res = result, !.at = from, !.prev = reader.res,
                   !.prevAt = reader.at, !.n = reader.n + 1]

\* getTransactionDetail, current revision: the items with the live title of the
\* book and subtotal_price = item.price * item.quantity
DetailItems(id) ==
  {[line |-> l.line, book_id |-> l.book_id, book_title |-> books[l.book_id].title,
    quantity |-> l.quantity, price |-> 0, subtotal_price |-> l.price * l.quantity,
    book |-> NoBook] :
     l \in {x \in order_items : x.order_id = id}}

\* the other revisions: data: transaction, the rows as found with each item's book
RawItems(id) ==
  {[line |-> l.line, book_id |-> l.book_id, book_title |-> books[l.book_id].title,
    quantity |-> l.quantity, price |-> l.price, subtotal_price |-> 0,
    book |-> books[l.book_id]] :
     l \in {x \in order_items : x.order_id = id}}

\* mutant: the query also sees the rows of transactions that have not committed
GetTransactionDetailDirty(id) ==
  /\ reader.pc = "idle"
  /\ reader.n < MaxReads
  /\ LET found == {o \in orders \cup UNION {tx[p].orders : p \in Procs} : o.id = id}
         order == CHOOSE o \in found : TRUE
     IN reader' = ReaderDone(
          IF found = {} THEN [NoResult EXCEPT !.op = "detail", !.status = 404, !.id = id]
          ELSE [NoResult EXCEPT !.op = "detail", !.status = 200, !.id = id,
                                !.total_price = order.total_price],
          {store})
  /\ UNCHANGED <<admin, auth, revision, users, store, locks, pc, req, bookMap, tx, resp,
                 initialStock, rolledBack>>

\* mutant: the query locks the Book rows it reads until the next request
StatisticsQueryLocking(q) ==
  /\ reader.pc = "statistics"
  /\ q \in reader.pending
  /\ \A b \in BookIds : locks[b] = {}
  /\ locks' = [b \in BookIds |-> {0}]
  /\ reader' = [reader EXCEPT !.pending = @ \ {q}]
  /\ UNCHANGED <<admin, auth, revision, users, store, pc, req, bookMap, tx, resp,
                 initialStock, rolledBack>>

\* prisma.order.findUnique({ where: { id }, include: order_items -> book })
GetTransactionDetail(id) ==
  /\ reader.pc = "idle"
  /\ reader.n < MaxReads
  /\ LET found == {o \in orders : o.id = id}
         rows == {x \in order_items : x.order_id = id}
         order == CHOOSE o \in found : TRUE
     IN reader' = ReaderDone(
          IF found = {} THEN [NoResult EXCEPT !.op = "detail", !.status = 404, !.id = id]
          ELSE [NoResult EXCEPT
                  !.op = "detail", !.status = 200, !.id = id,
                  !.items = IF revision = "current" THEN DetailItems(id)
                            ELSE RawItems(id),
                  !.total_quantity = IF revision = "current"
                                     THEN SumLineQuantity(rows) ELSE 0,
                  !.total_price = order.total_price],
          {store})
  /\ UNCHANGED <<admin, auth, revision, users, store, locks, pc, req, bookMap, tx, resp,
                 initialStock, rolledBack>>

\* parseFloat((totalAmount / totalTransactions).toFixed(2)), in hundredths
AverageInHundredths(totalAmount, totalTransactions) ==
  IF totalTransactions > 0
  THEN (200 * totalAmount + totalTransactions) \div (2 * totalTransactions)
  ELSE 0

\* prisma.order.aggregate({ _count: { id }, _sum: { total_price } })
OrderAggregate == [count |-> Cardinality(orders), sum |-> SumTotalPrice(orders)]

\* prisma.orderItem.groupBy({ by: ['book_id'], _sum: { quantity } })
GroupByBook ==
  {[book_id |-> b,
    quantity |-> SumLineQuantity({l \in order_items : l.book_id = b})] :
     b \in {l.book_id : l \in order_items}}

\* prisma.book.findMany({ where: { deleted_at: null }, select: { id, genre } })
LiveBookGenres ==
  {[id |-> b, genre_id |-> books[b].genre_id] :
     b \in {x \in DOMAIN books : ~books[x].deleted_at}}

\* earlier revision: prisma.order.findMany with order_items -> book -> genre
OrdersJoined ==
  {[id |-> o.id,
    items |-> {[line |-> l.line, quantity |-> l.quantity,
                book_price |-> books[l.book_id].price,
                genre_id |-> books[l.book_id].genre_id] :
                 l \in {x \in order_items : x.order_id = o.id}}] : o \in orders}

\* genreSalesMap: per genre, the grouped quantities of the books found in it
GenreSales(groups, found) ==
  LET genreOf(b) == (CHOOSE f \in found : f.id = b).genre_id
      known == {g \in groups : \E f \in found : f.id = g.book_id}
  IN [g \in {genreOf(k.book_id) : k \in known} |->
        SumLineQuantity({k \in known : genreOf(k.book_id) = g})]

RECURSIVE SumBookPrice(_)
\* earlier revision: totalAmount += item.book.price * item.quantity
SumBookPrice(items) ==
  IF items = {} THEN 0
  ELSE LET i == CHOOSE x \in items : TRUE
       IN i.book_price * i.quantity + SumBookPrice(items \ {i})

RECURSIVE TotalAmountJoined(_)
TotalAmountJoined(os) ==
  IF os = {} THEN 0
  ELSE LET o == CHOOSE x \in os : TRUE
       IN SumBookPrice(o.items) + TotalAmountJoined(os \ {o})

\* earlier revision: genreTransactionCount, the orders with an item of the genre
GenreTransactionCount(os) ==
  LET genresIn(o) == {i.genre_id : i \in o.items}
  IN [g \in UNION {genresIn(o) : o \in os} |->
        Cardinality({o \in os : g \in genresIn(o)})]

\* genreStats.sort((a, b) => b.count - a.count): the orders the sort can leave,
\* equal counts staying in the order the rows came back from the database
Rankings(sales) ==
  {r \in [1..Cardinality(DOMAIN sales) -> DOMAIN sales] :
     /\ \A i, j \in DOMAIN r : i # j => r[i] # r[j]
     /\ \A i, j \in DOMAIN r : i < j => sales[r[i]] >= sales[r[j]]}

\* the response computed from what the queries returned, for one ranking
StatisticsResult(r, ranking) ==
  LET n == Len(ranking)
      count == IF revision = "earlier" THEN Cardinality(r.joined) ELSE r.orderStats.count
      amount == IF revision = "earlier" THEN TotalAmountJoined(r.joined)
                ELSE r.orderStats.sum
      floor == IF revision = "earlier" THEN 0 ELSE 1
  IN [NoResult EXCEPT
        !.op = "statistics", !.status = 200,
        !.count = count,
        !.average = AverageInHundredths(amount, count),
        !.most = IF n > 0 THEN ranking[1] ELSE "",
        !.fewest = IF n > floor THEN ranking[n] ELSE "",
        !.torn = r.torn]

\* the genre counts of a revision from what its queries returned
SalesOf(r) ==
  IF revision = "earlier" THEN GenreTransactionCount(r.joined)
  ELSE GenreSales(r.orderItems, r.bookGenres)

\* getTransactionStatistics is called: its queries are sent together
StatisticsStart ==
  /\ reader.pc = "idle"
  /\ reader.n < MaxReads
  /\ reader' = [reader EXCEPT
                  !.pc = "statistics",
                  !.pending = IF revision = "earlier" THEN {"joined"}
                              ELSE {"orderStats", "orderItems", "bookGenres"},
                  !.seen = {}, !.torn = FALSE]
  /\ UNCHANGED <<admin, auth, revision, users, store, locks, pc, req, bookMap, tx, resp,
                 initialStock, rolledBack>>

\* one of the queries is answered; after the last one the response is computed
StatisticsQuery(q) ==
  /\ reader.pc = "statistics"
  /\ q \in reader.pending
  /\ LET r == [reader EXCEPT
                 !.pending = @ \ {q},
                 !.orderStats = IF q = "orderStats" THEN OrderAggregate ELSE @,
                 !.orderItems = IF q = "orderItems" THEN GroupByBook ELSE @,
                 !.bookGenres = IF q = "bookGenres" THEN LiveBookGenres ELSE @,
                 !.joined = IF q = "joined" THEN OrdersJoined ELSE @,
                 !.seen = {store},
                 !.torn = @ \/ (reader.seen # {} /\ reader.seen # {store})]
     IN IF r.pending # {} THEN reader' = r
        ELSE \E ranking \in Rankings(SalesOf(r)) :
               reader' = ReaderDone(StatisticsResult(r, ranking), {store})
  /\ UNCHANGED <<admin, auth, revision, users, store, locks, pc, req, bookMap, tx, resp,
                 initialStock, rolledBack>>

\* limitNum > 100 -> 'Invalid limit (must be 1-100)'
LimitMax == 100

\* the default query: page 1, limit 10, newest first
DefaultQuery == [page |-> 1, limit |-> 10, orderByAmount |-> ""]

\* getAllTransactions is called: page and limit are checked, then
\* prisma.order.findMany and prisma.order.count are sent together
GetAllRequest(query) ==
  /\ reader.pc = "idle"
  /\ reader.n < MaxReads
  /\ reader' =
       IF query.page < 1 \/ query.limit < 1 \/ query.limit > LimitMax
       THEN ReaderDone([NoResult EXCEPT !.op = "list", !.status = 400,
                                        !.query = query], {store})
       ELSE [reader EXCEPT !.pc = "list", !.pending = {"findMany", "count"},
                           !.query = query, !.seen = {}, !.torn = FALSE]
  /\ UNCHANGED <<admin, auth, revision, users, store, locks, pc, req, bookMap, tx, resp,
                 initialStock, rolledBack>>

\* getAllTransactions with its default query
GetAllStart == GetAllRequest(DefaultQuery)

\* formattedTransactions: id, total_quantity, total_price of each order found
FormattedTransactions ==
  {[line |-> o.id, book_id |-> "", book_title |-> "",
    quantity |-> SumLineQuantity({x \in order_items : x.order_id = o.id}),
    price |-> 0, subtotal_price |-> o.total_price, book |-> NoBook] : o \in orders}

\* the orders in which findMany without orderBy can return the rows
RowOrders(rows) ==
  {r \in [1..Cardinality(rows) -> rows] : \A i, j \in DOMAIN r : i # j => r[i] # r[j]}

\* formattedTransactions.sort by total_quantity, 'asc' ascending and anything else
\* descending; rows of equal total_quantity stay in the order they came in
SortByAmount(rows, dir) ==
  LET pos(x) == CHOOSE i \in DOMAIN rows : rows[i] = x
      before(x, y) ==
        \/ (IF dir = "asc" THEN x.quantity < y.quantity ELSE x.quantity > y.quantity)
        \/ x.quantity = y.quantity /\ pos(x) < pos(y)
  IN CHOOSE r \in RowOrders({rows[i] : i \in DOMAIN rows}) :
       \A i, j \in DOMAIN r : i < j => before(r[i], r[j])

\* formattedTransactions.slice(skip, skip + limitNum)
Slice(rows, skip, limitNum) ==
  SubSeq(rows, skip + 1, IF skip + limitNum < Len(rows) THEN skip + limitNum ELSE Len(rows))

\* meta: total_pages = Math.ceil(total / limitNum), prev_page, next_page
MetaOf(query, total) ==
  LET totalPages == (total + query.limit - 1) \div query.limit
  IN [page |-> query.page, limit |-> query.limit, total |-> total,
      total_pages |-> totalPages,
      prev_page |-> IF query.page > 1 THEN query.page - 1 ELSE 0,
      next_page |-> IF query.page < totalPages THEN query.page + 1 ELSE 0]

\* the response to a query with orderByAmount: all rows were fetched; they are
\* sorted in memory and the page is cut out
PageResult(r) ==
  [NoResult EXCEPT
     !.op = "list", !.status = 200, !.query = r.query,
     !.page = Slice(SortByAmount(r.rows, r.query.orderByAmount),
                    (r.query.page - 1) * r.query.limit, r.query.limit),
     !.count = r.total,
     !.meta = MetaOf(r.query, r.total),
     !.torn = r.torn]

\* one of the two queries is answered; after the second the page is sent
GetAllQuery(q) ==
  /\ reader.pc = "list"
  /\ q \in reader.pending
  /\ \E rows \in (IF q = "findMany" /\ reader.query.orderByAmount # ""
                  THEN RowOrders(FormattedTransactions) ELSE {<<>>}) :
       LET r == [reader EXCEPT
                   !.pending = @ \ {q},
                   !.listed = IF q = "findMany" THEN FormattedTransactions ELSE @,
                   !.rows = IF q = "findMany" THEN rows ELSE @,
                   !.total = IF q = "count" THEN Cardinality(orders) ELSE @,
                   !.seen = {store},
                   !.torn = @ \/ (reader.seen # {} /\ reader.seen # {store})]
       IN IF r.pending # {} THEN reader' = r
          ELSE reader' = ReaderDone(
                 IF r.query.orderByAmount # "" THEN PageResult(r)
                 ELSE [NoResult EXCEPT !.op = "list", !.status = 200,
                                       !.items = r.listed,
                                       !.count = r.total,
                                       !.torn = r.torn],
                 {store})
  /\ UNCHANGED <<admin, auth, revision, users, store, locks, pc, req, bookMap, tx, resp,
                 initialStock, rolledBack>>

\* prisma.book.findFirst({ where: { id, deleted_at: null } }) -> 404 or the book
GetBookDetail(b) ==
  /\ reader.pc = "idle"
  /\ reader.n < MaxReads
  /\ reader' = ReaderDone(
       IF b \notin DOMAIN books \/ books[b].deleted_at
       THEN [NoResult EXCEPT !.op = "book", !.status = 404, !.book_id = b]
       ELSE [NoResult EXCEPT !.op = "book", !.status = 200, !.book_id = b,
                             !.found = {b}],
       {store})
  /\ UNCHANGED <<admin, auth, revision, users, store, locks, pc, req, bookMap, tx, resp,
                 initialStock, rolledBack>>

\* where of getAllBooks (g = "") and of getBooksByGenre: deleted_at: null, genre_id
BooksWhere(g) ==
  {b \in DOMAIN books : ~books[b].deleted_at /\ (g = "" \/ books[b].genre_id = g)}

\* getAllBooks (g = "") or getBooksByGenre of a genre that exists is called with
\* its default query: prisma.book.findMany and prisma.book.count are sent together
GetBooksStart(g) ==
  /\ reader.pc = "idle"
  /\ reader.n < MaxReads
  /\ reader' = [reader EXCEPT !.pc = "books", !.pending = {"findMany", "count"},
                              !.genre = g, !.seen = {}, !.torn = FALSE]
  /\ UNCHANGED <<admin, auth, revision, users, store, locks, pc, req, bookMap, tx, resp,
                 initialStock, rolledBack>>

\* one of the two queries is answered; after the second the books are sent
GetBooksQuery(q) ==
  /\ reader.pc = "books"
  /\ q \in reader.pending
  /\ LET r == [reader EXCEPT
                 !.pending = @ \ {q},
                 !.bookRows = IF q = "findMany" THEN BooksWhere(reader.genre) ELSE @,
                 !.total = IF q = "count" THEN Cardinality(BooksWhere(reader.genre))
                           ELSE @,
                 !.seen = {store},
                 !.torn = @ \/ (reader.seen # {} /\ reader.seen # {store})]
     IN IF r.pending # {} THEN reader' = r
        ELSE reader' = ReaderDone([NoResult EXCEPT !.op = "books", !.status = 200,
                                                   !.found = r.bookRows,
                                                   !.count = r.total,
                                                   !.torn = r.torn],
                                  {store})
  /\ UNCHANGED <<admin, auth, revision, users, store, locks, pc, req, bookMap, tx, resp,
                 initialStock, rolledBack>>

\* ---------------------------------------------------------- specifications
\* Every handler of the pool serves one request.

\* a request goes to the first idle handler of the pool
Picks(p) == pc[p] = "idle" /\ \A q \in Procs : pc[q] = "idle" => p <= q

\* no handler is in the middle of a request
Quiet == \A p \in Procs : pc[p] \in {"idle", "done"}

\* the steps of a handler that has a request, current revision
Step(p) ==
  \/ FindUser(p)
  \/ FindBooks(p)
  \/ TxCreateOrder(p)
  \/ TxUpdateStock(p)
  \/ TxCommit(p)

\* handlers serve well-formed orders concurrently; the store may fail
Next ==
  \E p \in Procs :
    \/ Picks(p) /\ \E r \in Requests : Receive(p, r)
    \/ Step(p)
    \/ TxAbort(p)

Spec == Init /\ [][Next]_vars

\* the same with the earlier revision of createTransaction deployed
NextEarlier ==
  \E p \in Procs :
    \/ Picks(p) /\ \E r \in Requests : Receive(p, r)
    \/ Step(p)
    \/ TxCreateItem(p)
    \/ TxUpdateTotal(p)
    \/ TxAbort(p)

SpecEarlier == InitEarlier /\ [][NextEarlier]_vars

\* requests are served one after another and the store does not fail
NextSeq ==
  \E p \in Procs :
    \/ Quiet /\ Picks(p) /\ \E r \in Requests : Receive(p, r)
    \/ Step(p)

SpecSeq == Init /\ [][NextSeq]_vars

\* one request body of any shape, against any shelf
NextValidate ==
  \/ Picks(1) /\ \E r \in AllRequests : Receive(1, r)
  \/ Step(1)
  \/ TxAbort(1)

SpecValidate == InitValidate /\ [][NextValidate]_vars

\* ------------------------------------------------------------- properties
RECURSIVE SumQuantityOf(_)
\* the sum of the quantities of a set of OrderItem rows
SumQuantityOf(rows) ==
  IF rows = {} THEN 0
  ELSE LET row == CHOOSE x \in rows : TRUE
       IN row.quantity + SumQuantityOf(rows \ {row})

RECURSIVE SumSubtotalOf(_)
\* the sum of price * quantity of a set of OrderItem rows
SumSubtotalOf(rows) ==
  IF rows = {} THEN 0
  ELSE LET row == CHOOSE x \in rows : TRUE
       IN row.price * row.quantity + SumSubtotalOf(rows \ {row})

\* the committed OrderItem rows of a book, of an order
LinesOfBook(b) == {l \in order_items : l.book_id = b}
LinesOfOrder(id) == {l \in order_items : l.order_id = id}

Committed(p) == pc[p] = "done" /\ resp[p].kind = "Created"

\* C1: of two requests that each ask for quantity Q of a book with stock S,
\* 2Q > S, at most one commits an order.
NoOversell ==
  \A b \in BookIds : \A q \in 1..MaxQty :
    \A p1, p2 \in Procs :
      (/\ p1 # p2
       /\ Requested(req[p1], b) = q
       /\ Requested(req[p2], b) = q
       /\ 2 * q > initialStock[b])
      => ~(Committed(p1) /\ Committed(p2))

\* C2: the stock of every book is never negative.
StockNeverNegative == \A b \in BookIds : books[b].stock_quantity >= 0

\* C3: the stock of every book is its initial stock minus the quantities of the
\* committed order lines for that book.
StockConservation ==
  \A b \in BookIds :
    books[b].stock_quantity = initialStock[b] - SumQuantityOf(LinesOfBook(b))

\* two handlers ran concurrently and both committed lines for the same book
TwoOrdersOneBook ==
  \E b \in BookIds : \E l1, l2 \in LinesOfBook(b) :
    /\ l1.order_id # l2.order_id
    /\ l1.quantity + l2.quantity > initialStock[b]

\* a handler answered 400 or 404: one of the checks of the request failed
ValidationRejected(p) == pc[p] = "done" /\ resp[p].status \in {400, 404}

\* C4: after a request that was rejected by a check, there is no order, no order
\* line, and every book is as it was before the request, the books of the
\* request's valid lines included.
RejectionLeavesStore ==
  ValidationRejected(1) =>
    /\ orders = {}
    /\ order_items = {}
    /\ \A b \in BookIds :
         /\ books[b].stock_quantity = initialStock[b]
         /\ books[b].price = Prices[b]
         /\ books[b].genre_id = Genres[b]

\* a two-line request whose first line is in stock and whose second is not
RejectedAfterValidLine ==
  /\ ValidationRejected(1)
  /\ resp[1].kind = "InsufficientStock"
  /\ Len(req[1].items) = 2
  /\ resp[1].ids = {req[1].items[2].book_id}
  /\ initialStock[req[1].items[1].book_id] >= req[1].items[1].quantity

\* the $transaction of a handler failed and 500 was sent
Failed(p) == pc[p] = "done" /\ resp[p].kind = "InternalError"

RECURSIVE CommittedDemand(_, _)
\* the quantity of book b asked for by the requests of ps that committed
CommittedDemand(ps, b) ==
  IF ps = {} THEN 0
  ELSE LET p == CHOOSE x \in ps : TRUE
       IN (IF Committed(p) THEN Requested(req[p], b) ELSE 0)
          + CommittedDemand(ps \ {p}, b)

\* C5: after a failure inside the transaction, the order it had created, its order
\* lines and the stock decrements it had applied are gone: the books show only the
\* decrements of the requests that committed.
RollbackComplete ==
  \A p \in Procs :
    Failed(p) =>
      /\ \A o \in orders : o.id # rolledBack[p].orderId
      /\ \A l \in order_items : l.order_id # rolledBack[p].orderId
      /\ \A b \in BookIds :
           books[b].stock_quantity =
             initialStock[b] - CommittedDemand(Procs \ {p}, b)

\* a transaction failed after it had created its order and decremented a book
FailedAfterDecrement ==
  \E p \in Procs :
    /\ Failed(p)
    /\ rolledBack[p].orders # {}
    /\ rolledBack[p].touched # {}

\* the id of the order of the request a handler is serving or has committed
OrderOf(p) ==
  IF pc[p] \in InTx THEN tx[p].orderId
  ELSE IF Committed(p) THEN resp[p].a
  ELSE 0

\* C6: what a reader finds in the store is never part of an order: the order of
\* an open transaction and its lines are not there, an order that is there has
\* all the lines of its request and its final total_price, and no book is
\* decremented by more than the order lines that are there.
NoPartialVisibility ==
  /\ \A p \in Procs :
       /\ pc[p] \in InTx =>
            /\ \A o \in orders : o.id # OrderOf(p)
            /\ LinesOfOrder(OrderOf(p)) = {}
       /\ \A o \in orders :
            o.id = OrderOf(p) =>
              /\ Cardinality(LinesOfOrder(o.id)) = Len(req[p].items)
              /\ o.total_price = SumPrice(req[p].items, books, Len(req[p].items))
  /\ \A o \in orders : \E p \in Procs : Committed(p) /\ o.id = OrderOf(p)
  /\ \A b \in BookIds :
       initialStock[b] - books[b].stock_quantity <= SumQuantityOf(LinesOfBook(b))

\* a transaction has written its order, lines and decrements but not the total,
\* while the order of another handler is already committed
ReaderDuringTransaction ==
  \E p, q \in Procs :
    /\ pc[p] = "txTotal"
    /\ tx[p].touched # {}
    /\ \E o \in tx[p].orders : o.total_price = 0
    /\ Committed(q)

\* ---- the checks of a request as the specification numbers them
\* (1) items non-empty and every quantity a positive integer
QuantitiesBad(r) ==
  \/ Len(r.items) = 0
  \/ \E i \in 1..Len(r.items) : Twice(r.items[i]) <= 0 \/ r.items[i].half
\* (2) book ids pairwise distinct
HasRepeatedBook(r) ==
  \E i, j \in 1..Len(r.items) : i # j /\ r.items[i].book_id = r.items[j].book_id
\* (3) purchaser exists
PurchaserUnknown(r) == r.user_id \notin users
\* (4) every book id resolves to a book that is not soft-deleted
Resolves(b) == b \in BookIds /\ ~books[b].deleted_at
BookUnknown(r) == \E i \in 1..Len(r.items) : ~Resolves(r.items[i].book_id)
\* (5) every line's quantity <= the stock the request found
StockShort(r) ==
  \E i \in 1..Len(r.items) :
    /\ Resolves(r.items[i].book_id)
    /\ Twice(r.items[i]) > 2 * initialStock[r.items[i].book_id]
\* the checks that precede them in the code: a field is absent
FieldMissing(r) ==
  \/ r.user_id = ""
  \/ \E i \in 1..Len(r.items) : r.items[i].book_id = ""

\* how many of the five checks a request violates
ViolationCount(r) ==
  (IF QuantitiesBad(r) THEN 1 ELSE 0) + (IF HasRepeatedBook(r) THEN 1 ELSE 0)
  + (IF PurchaserUnknown(r) THEN 1 ELSE 0) + (IF BookUnknown(r) THEN 1 ELSE 0)
  + (IF StockShort(r) THEN 1 ELSE 0)

\* the error of the earliest violated check of the five
EarliestOfFive(r) ==
  IF QuantitiesBad(r) THEN "InvalidRequest"
  ELSE IF HasRepeatedBook(r) THEN "DuplicateLineItem"
  ELSE IF PurchaserUnknown(r) THEN "UserNotFound"
  ELSE IF BookUnknown(r) THEN "BookNotFound"
  ELSE IF StockShort(r) THEN "InsufficientStock"
  ELSE "none"

\* the same with the test for absent fields in front
EarliestWithFields(r) ==
  IF FieldMissing(r) THEN "InvalidRequest" ELSE EarliestOfFive(r)

\* the error of the specification's taxonomy a response stands for
ErrorClass(kind) ==
  CASE kind \in {"UserIdRequired", "ItemsRequired", "InvalidItem",
                 "QuantityNotInteger"} -> "InvalidRequest"
    [] kind = "DuplicateBooks" -> "DuplicateLineItem"
    [] kind = "UserNotFound" -> "UserNotFound"
    [] kind = "BooksNotFound" -> "BookNotFound"
    [] kind = "InsufficientStock" -> "InsufficientStock"
    [] OTHER -> "none"

\* C7 as stated: a request that violates several of the five checks is rejected
\* with the error of the earliest violated one.
EarliestOfFiveChecksWins ==
  (pc[1] = "done" /\ ViolationCount(req[1]) >= 2) =>
    ErrorClass(resp[1].kind) = EarliestOfFive(req[1])

\* C7: the checks are applied in the order: user_id and every book_id present,
\* then the five checks in their order; a request is rejected with the error of
\* the earliest check it violates, and is rejected by no check if it violates none.
ValidationOrder ==
  pc[1] = "done" => ErrorClass(resp[1].kind) = EarliestWithFields(req[1])

\* a request with a repeated book, an unknown purchaser and an unknown book was
\* rejected for the repeated book
RejectedByEarliestOfSeveral ==
  /\ pc[1] = "done"
  /\ ~FieldMissing(req[1])
  /\ ~QuantitiesBad(req[1])
  /\ HasRepeatedBook(req[1])
  /\ PurchaserUnknown(req[1])
  /\ BookUnknown(req[1])
  /\ resp[1].kind = "DuplicateBooks"

\* nothing of the store differs from what the request found
StoreUntouched ==
  /\ orders = {}
  /\ order_items = {}
  /\ \A b \in BookIds : books[b].stock_quantity = initialStock[b]

\* C8 as stated: every request in which two items carry the same book_id is
\* rejected with the duplicate error and leaves no order and no stock change.
DuplicateAlwaysReported ==
  (pc[1] = "done" /\ HasRepeatedBook(req[1])) =>
    resp[1].kind = "DuplicateBooks" /\ StoreUntouched

\* C8: a request in which two items carry the same book_id is rejected with
\* status 400, never merged, and leaves no order and no stock change; the error
\* is the duplicate error when user_id and every book_id are present and every
\* quantity is a positive integer, whatever the quantities and the stock.
DuplicateLineRejected ==
  (pc[1] = "done" /\ HasRepeatedBook(req[1])) =>
    /\ resp[1].status = 400
    /\ StoreUntouched
    /\ (~FieldMissing(req[1]) /\ ~QuantitiesBad(req[1])) =>
         resp[1].kind = "DuplicateBooks"

\* a book in stock for both lines, asked for twice by a known purchaser
DuplicateOfBookInStock ==
  /\ pc[1] = "done"
  /\ resp[1].kind = "DuplicateBooks"
  /\ req[1].user_id \in users
  /\ Len(req[1].items) = 2
  /\ req[1].items[1].book_id = req[1].items[2].book_id
  /\ Resolves(req[1].items[1].book_id)
  /\ req[1].items[1].quantity + req[1].items[2].quantity
       <= initialStock[req[1].items[1].book_id]

\* the stock of b that the request of handler p finds, requests served in turn
StockBefore(p, b) == initialStock[b] - CommittedDemand({q \in Procs : q < p}, b)

\* C9: served one after another, a request for quantity q of a book with stock s
\* commits iff q <= s; it then gets total_price = price * q and leaves stock
\* s - q; otherwise it is refused as insufficient stock with available s,
\* requested q, and the stock stays s.
SequentialStockCheck ==
  \A p \in Procs :
    (pc[p] = "done" /\ Len(req[p].items) = 1) =>
      LET b == req[p].items[1].book_id
          q == req[p].items[1].quantity
          s == StockBefore(p, b)
          later == \E r \in Procs : r > p /\ Committed(r)
      IN IF q <= s
         THEN /\ resp[p] = Created(resp[p].a, q, Prices[b] * q)
              /\ \E o \in orders : o.id = resp[p].a /\ o.total_price = Prices[b] * q
              /\ ~later => books[b].stock_quantity = s - q
         ELSE /\ resp[p] = Insufficient(b, s, q)
              /\ \A o \in orders : \E r \in Procs \ {p} : o.id = OrderOf(r)
              /\ ~later => books[b].stock_quantity = s

\* the first request took part of the stock, the second asked for more than is left
SecondRefusedAfterFirst ==
  /\ Committed(1)
  /\ resp[2].kind = "InsufficientStock"
  /\ Len(req[1].items) = 1
  /\ Len(req[2].items) = 1
  /\ req[1].items[1].book_id = req[2].items[1].book_id
  /\ resp[2].a > 0
  /\ resp[2].a = initialStock[req[2].items[1].book_id] - req[1].items[1].quantity

FullShelf ==
  /\ initialStock = [b \in BookIds |-> MaxStock]
  /\ books = BookRows(initialStock, [b \in BookIds |-> FALSE])

InitShop == revision = "current" /\ FullShelf /\ InitHandlers

InitShopEarlier == revision = "earlier" /\ FullShelf /\ InitHandlers

\* one order is placed
PlaceOrder ==
  \/ Picks(1) /\ \E r \in Requests : Receive(1, r)
  \/ Step(1)

\* the same by the earlier revision of createTransaction
PlaceOrderEarlier ==
  \/ PlaceOrder
  \/ TxCreateItem(1)
  \/ TxUpdateTotal(1)

\* updateBook requests that change the price of a book
Reprice ==
  \/ \E b \in BookIds : \E d \in Updates :
       d.title = "" /\ d.genre_id = "" /\ UpdateReceive(1, b, d)
  \/ UpdateFind(1)
  \/ UpdateWrite(1)

\* the order ids a reader may ask for
OrderIds == 1..Cardinality(Procs)

\* one read of the values that derive from prices
ReadAmounts ==
  \/ reader.n = 0 /\ \E id \in OrderIds : GetTransactionDetail(id)
  \/ reader.n = 0 /\ StatisticsStart
  \/ \E q \in reader.pending : StatisticsQuery(q)

\* orders, price changes and reads of amounts, current revision
NextPrice == PlaceOrder \/ Reprice \/ ReadAmounts

SpecPrice == InitShop /\ [][NextPrice]_vars

\* the same with the earlier revision deployed
NextPriceEarlier == PlaceOrderEarlier \/ Reprice \/ ReadAmounts

SpecPriceEarlier == InitShopEarlier /\ [][NextPriceEarlier]_vars

\* deleteBook requests
Remove ==
  \/ \E b \in BookIds : DeleteReceive(1, b)
  \/ DeleteFind(1)
  \/ DeleteWrite(1)

\* an order is placed while books are being removed
NextDelete == PlaceOrder \/ Remove

SpecDelete == InitShop /\ [][NextDelete]_vars

\* updateBook requests that move a book to a genre
Regenre ==
  \/ \E b \in BookIds : \E d \in Updates :
       d.title = "" /\ d.price = 0 /\ d.genre_id # "" /\ UpdateReceive(1, b, d)
  \/ UpdateFind(1)
  \/ UpdateWrite(1)

\* one request for the statistics
ReadStatistics ==
  \/ reader.n = 0 /\ StatisticsStart
  \/ \E q \in reader.pending : StatisticsQuery(q)

\* an order, moves of books between genres, removals and the statistics
NextGenre == PlaceOrder \/ Regenre \/ Remove \/ ReadStatistics

SpecGenre == InitShop /\ [][NextGenre]_vars

\* the same with the earlier revision deployed
NextGenreEarlier == PlaceOrderEarlier \/ Regenre \/ Remove \/ ReadStatistics

SpecGenreEarlier == InitShopEarlier /\ [][NextGenreEarlier]_vars

\* the three read handlers
Reads ==
  \/ \E id \in OrderIds : GetTransactionDetail(id)
  \/ StatisticsStart
  \/ \E q \in reader.pending : StatisticsQuery(q)
  \/ GetAllStart
  \/ \E q \in reader.pending : GetAllQuery(q)

\* an order is placed while the read handlers are called
NextReads == PlaceOrder \/ Reads

InitReads == revision = "current" /\ LiveShelf /\ InitHandlers

SpecReads == InitReads /\ [][NextReads]_vars

\* updateBook requests that change the title of a book
Retitle ==
  \/ \E b \in BookIds : \E d \in Updates :
       d.title # "" /\ d.price = 0 /\ d.genre_id = "" /\ UpdateReceive(1, b, d)
  \/ UpdateFind(1)
  \/ UpdateWrite(1)

\* an order is placed, books are renamed, and the detail of an order is read
NextDetail ==
  \/ PlaceOrder
  \/ Retitle
  \/ \E id \in OrderIds : GetTransactionDetail(id)

SpecDetail == InitShop /\ [][NextDetail]_vars

\* the same with the earlier revision deployed
NextDetailEarlier ==
  \/ PlaceOrderEarlier
  \/ Retitle
  \/ \E id \in OrderIds : GetTransactionDetail(id)

SpecDetailEarlier == InitShopEarlier /\ [][NextDetailEarlier]_vars

\* ------------------------------------------------- properties of the reads
\* the store a response of the read handler was read from
BooksRead == (CHOOSE x \in reader.at : TRUE)[1]
OrdersRead == (CHOOSE x \in reader.at : TRUE)[2]
LinesRead == (CHOOSE x \in reader.at : TRUE)[3]

RECURSIVE SumTotalsOf(_)
\* the sum of the stored total_price of a set of Order rows
SumTotalsOf(os) ==
  IF os = {} THEN 0
  ELSE LET o == CHOOSE x \in os : TRUE IN o.total_price + SumTotalsOf(os \ {o})

\* sum / n to two decimals, in hundredths, halves rounded up; 0 for n = 0
RoundedAverage(sum, n) ==
  IF n = 0 THEN 0
  ELSE CHOOSE h \in 0..(100 * sum) : 2 * n * h <= 200 * sum + n /\ 200 * sum + n < 2 * n * (h + 1)

\* the read handler answered getTransactionStatistics from one state of the store
StatisticsAnswered ==
  reader.res.op = "statistics" /\ ~reader.res.torn

\* the read handler answered getTransactionDetail with an order
DetailAnswered == reader.res.op = "detail" /\ reader.res.status = 200

\* C11: the total_price and line prices stored by a committed order stay what the
\* order committed with, whatever updateBook does to the prices of its books, and
\* the subtotals of getTransactionDetail and the average of
\* getTransactionStatistics are computed from these stored values.
PriceSnapshotKept ==
  /\ Committed(1) =>
       \E o \in orders :
         /\ o.id = resp[1].a
         /\ o.total_price = resp[1].c
         /\ SumSubtotalOf(LinesOfOrder(o.id)) = resp[1].c
  /\ DetailAnswered =>
       /\ \E o \in orders : o.id = reader.res.id /\ o.total_price = reader.res.total_price
       /\ revision = "current" =>
            \A i \in reader.res.items :
              \E l \in LinesOfOrder(reader.res.id) :
                /\ l.line = i.line
                /\ i.subtotal_price = l.price * l.quantity
  /\ StatisticsAnswered =>
       reader.res.average = RoundedAverage(SumTotalsOf(OrdersRead), Cardinality(OrdersRead))

\* the price of a book of a committed order was changed, then the amounts were read
ReadAfterPriceChange ==
  /\ Committed(1)
  /\ reader.res.op \in {"statistics", "detail"}
  /\ reader.res.status = 200
  /\ ~reader.res.torn
  /\ OrdersRead # {}
  /\ \E l \in LinesOfOrder(resp[1].a) : BooksRead[l.book_id].price # l.price

\* C12: a request that names a soft-deleted book is answered book-not-found, and
\* no order commits with a line for a book that is soft-deleted when it commits
\* (so no stock of such a book is decremented).
NoSaleOfDeletedBook ==
  [][\A p \in Procs :
       /\ (/\ pc[p] = "findBooks"
           /\ pc'[p] # "findBooks"
           /\ \E b \in BookIdsOf(req[p].items) \cap BookIds : books[b].deleted_at)
          => resp'[p].kind = "BooksNotFound"
       /\ (pc[p] = "txCommit" /\ resp'[p].kind = "Created")
          => \A l \in tx[p].items : ~books[l.book_id].deleted_at]_vars

\* C13: every committed order has at least one order line, every order line
\* belongs to exactly one order that exists, every line quantity is a positive
\* integer, and no two lines of an order are for the same book.
OrderLinesWellFormed ==
  /\ \A o \in orders : LinesOfOrder(o.id) # {}
  /\ \A l \in order_items : Cardinality({o \in orders : o.id = l.order_id}) = 1
  /\ \A l \in order_items : l.quantity \in Nat /\ l.quantity >= 1
  /\ \A p \in Procs :
       Committed(p) =>
         \A i \in 1..Len(req[p].items) :
           ~req[p].items[i].half /\ req[p].items[i].quantity >= 1
  /\ \A l1, l2 \in order_items :
       (l1.order_id = l2.order_id /\ l1.book_id = l2.book_id) => l1 = l2

\* a request of two lines was stored as an order of two lines
TwoLineOrderStored ==
  /\ Committed(1)
  /\ Len(req[1].items) = 2
  /\ Cardinality(LinesOfOrder(resp[1].a)) = 2

\* C14: the response to a committed createTransaction carries the order as
\* stored: its id, its total_price and every one of its order lines (book,
\* quantity and price snapshot).
ResponseIsStoredOrder ==
  \A p \in Procs :
    Committed(p) =>
      /\ \E o \in orders : o.id = resp[p].a /\ o.total_price = resp[p].c
      /\ resp[p].lines = LinesOfOrder(resp[p].a)

\* C15: getTransactionStatistics answers total_transactions = the number of
\* committed orders and average_transaction_amount = the sum of their stored
\* total_price divided by that number, to two decimals, and 0 without orders.
AverageOfStoredTotals ==
  StatisticsAnswered =>
    /\ reader.res.count = Cardinality(OrdersRead)
    /\ reader.res.average =
         RoundedAverage(SumTotalsOf(OrdersRead), Cardinality(OrdersRead))
    /\ OrdersRead = {} => reader.res.average = 0

\* the books that were live and in genre g when the statistics were read
BooksInGenre(g) ==
  {b \in BookIds : BooksRead[b].genre_id = g /\ ~BooksRead[b].deleted_at}

\* the quantity sold of the books that were live and in genre g
SoldInGenre(g) ==
  SumQuantityOf({l \in LinesRead : l.book_id \in BooksInGenre(g)})

\* the genres with sales
GenresSold == {g \in GenreIds : SoldInGenre(g) > 0}

\* C16: with no book removed, the genre reported as most sold has the largest
\* sum of order line quantities over the books now in it; a book moved to another
\* genre after its purchase counts for its new genre.
RankedBySoldQuantity ==
  (StatisticsAnswered /\ \A b \in BookIds : ~BooksRead[b].deleted_at) =>
    (GenresSold # {} =>
       /\ reader.res.most \in GenresSold
       /\ \A g \in GenresSold : SoldInGenre(reader.res.most) >= SoldInGenre(g))

\* C17: the order lines of a book that was soft-deleted after its purchase do not
\* count for any genre (a genre sold only through removed books is not reported),
\* while total_transactions and average_transaction_amount count every order.
RemovedBooksNotRanked ==
  (StatisticsAnswered /\ \E b \in BookIds : BooksRead[b].deleted_at) =>
    /\ reader.res.most \in GenresSold \cup {""}
    /\ reader.res.fewest \in GenresSold \cup {""}
    /\ GenresSold # {} => reader.res.most # ""
    /\ reader.res.count = Cardinality(OrdersRead)
    /\ reader.res.average =
         RoundedAverage(SumSubtotalOf(LinesRead), Cardinality(OrdersRead))

\* C18: with no book removed, the most sold genre is null iff no genre has sales;
\* the fewest sold genre is null when fewer than two genres have sales, and is a
\* genre with the smallest sales, other than the most sold one, when two or more
\* have.
GenreFloor ==
  (StatisticsAnswered /\ \A b \in BookIds : ~BooksRead[b].deleted_at) =>
    /\ reader.res.most = "" <=> GenresSold = {}
    /\ Cardinality(GenresSold) < 2 => reader.res.fewest = ""
    /\ Cardinality(GenresSold) >= 2 =>
         /\ reader.res.fewest \in GenresSold \ {reader.res.most}
         /\ \A g \in GenresSold : SoldInGenre(reader.res.fewest) <= SoldInGenre(g)

\* what a well-formed request comes to when nothing else runs
ServedAlone(p) ==
  IF \A b \in BookIds : Requested(req[p], b) <= initialStock[b]
  THEN /\ Committed(p)
       /\ \A b \in BookIds :
            books[b].stock_quantity = initialStock[b] - Requested(req[p], b)
       /\ Cardinality(orders) = 1
       /\ Cardinality(order_items) = Len(req[p].items)
  ELSE /\ resp[p].kind = "InsufficientStock"
       /\ StoreUntouched

\* C19: a step of getTransactionStatistics, getAllTransactions or
\* getTransactionDetail changes no order, order line, book or lock and nothing of
\* a createTransaction in progress, and a createTransaction that runs while they
\* are called ends as it does when it runs alone.
ReadsAreSilent ==
  /\ [][reader' # reader =>
          UNCHANGED <<auth, revision, users, books, orders, order_items, locks,
                      pc, req, bookMap, tx, resp, admin>>]_vars
  /\ [](pc[1] = "done" => ServedAlone(1))

\* the queries of one statistics request were answered on both sides of a commit
StatisticsAcrossCommit ==
  /\ Committed(1)
  /\ reader.res.op = "statistics"
  /\ reader.res.torn

\* the store the response before the last one was read from
PrevBooks == (CHOOSE x \in reader.prevAt : TRUE)[1]
PrevOrders == (CHOOSE x \in reader.prevAt : TRUE)[2]

\* the last two responses are getTransactionDetail of the same transaction_id
DetailTwice ==
  /\ reader.res.op = "detail"
  /\ reader.prev.op = "detail"
  /\ reader.res.id = reader.prev.id

TitleChoices == {"b1", NewTitle}

\* createBook requests
Add(a) ==
  \/ \E t \in TitleChoices \cup {""} : CreateReceive(a, t)
  \/ CreateFind(a)
  \/ CreateWrite(a)

\* updateBook requests that change the title, and deleteBook requests
Edit(a) ==
  \/ \E b \in BookIds : \E d \in Updates :
       d.price = 0 /\ d.genre_id = "" /\ UpdateReceive(a, b, d)
  \/ UpdateFind(a)
  \/ UpdateWrite(a)
  \/ \E b \in BookIds : DeleteReceive(a, b)
  \/ DeleteFind(a)
  \/ DeleteWrite(a)

\* the catalogue handlers serve createBook, updateBook and deleteBook concurrently
NextTitles == \E a \in Admins : Add(a) \/ Edit(a)

SpecTitles == InitShop /\ [][NextTitles]_vars

\* the books that are not removed and have title t
LiveWithTitle(t) == {b \in DOMAIN books : books[b].title = t /\ ~books[b].deleted_at}

\* title t is the title of removed books only
HeldByRemovedOnly(t) ==
  /\ \E b \in DOMAIN books : books[b].title = t
  /\ LiveWithTitle(t) = {}

\* C21: no two books that are not removed have the same title, and a createBook
\* whose title is held by removed books only inserts the book (201).
TitlesUniqueAndReusable ==
  /\ [](\A b \in DOMAIN books : ~books[b].deleted_at =>
          LiveWithTitle(books[b].title) = {b})
  /\ [][\A a \in Admins :
          (/\ admin[a].pc = "crtWrite"
           /\ admin'[a].pc = "idle"
           /\ HeldByRemovedOnly(admin[a].data.title))
          => /\ admin'[a].status = 201
             /\ LiveWithTitle(admin[a].data.title)' # {}]_vars

\* C22: a createTransaction whose $transaction failed answers 500 with the generic
\* message only: the response carries no message of the driver or of the ORM.
FailureIsGeneric ==
  \A p \in Procs :
    Failed(p) => /\ resp[p].status = 500
                 /\ resp[p].error = ""

\* C23: when an order commits, the price stored on each of its lines is the price
\* its book has in the committed store at that moment, and total_price is the sum
\* of these prices times the quantities.
PriceAtCommit ==
  [][\A p \in Procs :
       (pc[p] = "txCommit" /\ Committed(p)') =>
         /\ \A l \in LinesOfOrder(resp[p].a)' : l.price = books[l.book_id].price
         /\ \E o \in orders' :
              /\ o.id = resp'[p].a
              /\ o.total_price =
                   SumSubtotalOf({[l EXCEPT !.price = books[l.book_id].price] :
                                    l \in LinesOfOrder(o.id)'})]_vars

\* C24: with every book live, an answer of getTransactionStatistics counts an
\* order in total_transactions exactly when the order's lines are in its genre
\* sums: no order counted without a most sold genre, no genre without an order.
OrderWhollyCounted ==
  reader.res.op = "statistics" =>
    (reader.res.count > 0 <=> reader.res.most # "")

\* the place of a genre id in ascending order of the ids
GenreIndex(g) == IF g = "g1" THEN 1 ELSE 2

\* g comes before h when sorted by quantity descending, then genre id ascending
RanksBefore(g, h) ==
  \/ SoldInGenre(g) > SoldInGenre(h)
  \/ SoldInGenre(g) = SoldInGenre(h) /\ GenreIndex(g) < GenreIndex(h)

\* C25: with every book live, the most sold genre reported is the first and the
\* fewest sold genre the last of the genres with sales sorted by quantity
\* descending and genre id ascending, whatever order the rows come back in.
RankingDeterministic ==
  (StatisticsAnswered /\ \A b \in BookIds : ~BooksRead[b].deleted_at) =>
    /\ GenresSold # {} =>
         /\ reader.res.most \in GenresSold
         /\ \A g \in GenresSold \ {reader.res.most} : RanksBefore(reader.res.most, g)
    /\ Cardinality(GenresSold) >= 2 =>
         /\ reader.res.fewest \in GenresSold
         /\ \A g \in GenresSold \ {reader.res.fewest} : RanksBefore(g, reader.res.fewest)

\* ------------------------------------------------------------- progress
\* A query that can be answered is answered, and a $transaction that stays open
\* (its update waiting for a row) is ended by its timeout.
Fairness == \A p \in Procs : WF_vars(Step(p)) /\ WF_vars(TxAbort(p))

SpecLive == Init /\ [][Next]_vars /\ Fairness

\* the same for the earlier revision of createTransaction
FairnessEarlier ==
  \A p \in Procs :
    /\ WF_vars(Step(p) \/ TxCreateItem(p) \/ TxUpdateTotal(p))
    /\ WF_vars(TxAbort(p))

SpecLiveEarlier == InitEarlier /\ [][NextEarlier]_vars /\ FairnessEarlier

\* handler p is serving a request
Serving(p) == pc[p] \notin {"idle", "done"}

\* C26: every createTransaction request is answered, and answered once; a step of
\* a request other than its commit changes no order, order line or stock, so a
\* request that ends with an error leaves them as they were.
EveryRequestAnswered ==
  /\ \A p \in Procs : Serving(p) ~> (pc[p] = "done" /\ resp[p] # NoResp)
  /\ [][\A p \in Procs :
          /\ resp'[p] # resp[p] => (pc[p] # "done" /\ pc'[p] = "done")
          /\ (pc'[p] # pc[p] /\ ~Committed(p)') => UNCHANGED store
          /\ (Serving(p) /\ Failed(p)') =>
               /\ orders' \cap tx[p].orders = {}
               /\ order_items' \cap tx[p].items = {}]_vars

\* a request was ended by the timeout while the other held the row it waited for
FailedWaitingForRow ==
  /\ Failed(1)
  /\ Committed(2)
  /\ rolledBack[1].orders # {}
  /\ \E b \in BookIds :
       /\ b \in BookIdsOf(req[1].items) \cap BookIdsOf(req[2].items)
       /\ b \notin rolledBack[1].touched

\* the request of handler 1 was submitted again to handler 2, with stock for both
SubmittedTwice ==
  /\ pc[1] = "done"
  /\ pc[2] = "done"
  /\ req[1] = req[2]
  /\ \A b \in BookIds : 2 * Requested(req[1], b) <= initialStock[b]

\* C27: the same valid request submitted twice in sequence, with stock for both,
\* creates two orders with different ids and the lines of each, and takes twice
\* the quantity of each line off the stock.
ResubmissionOrdersAgain ==
  SubmittedTwice =>
    /\ Committed(1) /\ Committed(2)
    /\ resp[1].a # resp[2].a
    /\ {o.id : o \in orders} = {resp[1].a, resp[2].a}
    /\ Cardinality(orders) = 2
    /\ \A p \in Procs : Cardinality(LinesOfOrder(resp[p].a)) = Len(req[p].items)
    /\ \A b \in BookIds :
         books[b].stock_quantity = initialStock[b] - 2 * Requested(req[1], b)

\* a request for two books was submitted twice and both were served
TwoBooksOrderedTwice ==
  /\ SubmittedTwice
  /\ Len(req[1].items) = 2
  /\ Committed(2)

\* ------------------------------------------------ pages of getAllTransactions
MaxOrders == 3
MaxPage == 2
MaxLimit == 2

\* the queries with orderByAmount; page 0 and limits 0 and 101 are refused
PageQueries ==
  [page : 0..MaxPage, limit : (0..MaxLimit) \cup {LimitMax + 1},
   orderByAmount : {"asc", "desc"}]

\* orders 1..n committed earlier, each of one line of book b1
OrdersOfQuantities(qs) ==
  {[id |-> i, user_id |-> "u1", total_price |-> Prices["b1"] * qs[i]] : i \in DOMAIN qs}

LinesOfQuantities(qs) ==
  {[order_id |-> i, line |-> 1, book_id |-> "b1", quantity |-> qs[i],
    price |-> Prices["b1"]] : i \in DOMAIN qs}

InitPages ==
  /\ revision = "current"
  /\ FullShelf
  /\ InitIdle
  /\ \E qs \in SeqsUpTo(1..MaxQty, MaxOrders) :
       /\ orders = OrdersOfQuantities(qs)
       /\ order_items = LinesOfQuantities(qs)

\* pages are asked for while no order is placed
NextPages ==
  \/ \E query \in PageQueries : GetAllRequest(query)
  \/ \E q \in reader.pending : GetAllQuery(q)

SpecPages == InitPages /\ [][NextPages]_vars

\* response r is a page of a query with orderByAmount
PageAnswered(r) == r.op = "list" /\ r.status = 200 /\ r.query.orderByAmount # ""

\* the ids of the orders on the page of response r
IdsOnPage(r) == {r.page[k].line : k \in DOMAIN r.page}

\* the matching orders of the store the last response was read from, each with
\* its total line quantity
AmountsRead ==
  {[id |-> o.id,
    quantity |-> SumQuantityOf({l \in LinesRead : l.order_id = o.id})] : o \in OrdersRead}

\* sequence s lists rows in the direction dir of the total line quantity
SortedByAmount(s, dir) ==
  \A i, j \in DOMAIN s :
    i < j => IF dir = "asc" THEN s[i].quantity <= s[j].quantity
             ELSE s[i].quantity >= s[j].quantity

\* the page holds the elements at positions (p-1)*l .. p*l-1 of a sorted list
PageIsSliceOfSorted ==
  PageAnswered(reader.res) =>
    LET q == reader.res.query
        skip == (q.page - 1) * q.limit
    IN \E s \in RowOrders(AmountsRead) :
         /\ SortedByAmount(s, q.orderByAmount)
         /\ DOMAIN reader.res.page = {k \in 1..q.limit : skip + k <= Len(s)}
         /\ \A k \in DOMAIN reader.res.page :
              /\ reader.res.page[k].line = s[skip + k].id
              /\ reader.res.page[k].quantity = s[skip + k].quantity

\* meta: total_pages = ceil(total / l), next_page and prev_page
PageMetaRight ==
  PageAnswered(reader.res) =>
    LET q == reader.res.query
        m == reader.res.meta
        total == Cardinality(OrdersRead)
    IN /\ m.total = total
       /\ m.total_pages * q.limit >= total
       /\ (m.total_pages - 1) * q.limit < total
       /\ m.total_pages >= 0
       /\ (m.next_page = 0 <=> q.page >= m.total_pages)
       /\ (m.next_page # 0 => m.next_page = q.page + 1)
       /\ (m.prev_page = 0 <=> q.page = 1)
       /\ (m.prev_page # 0 => m.prev_page = q.page - 1)

\* the last two responses are two pages of one sorted list of the same store
TwoPagesOfOneList ==
  /\ PageAnswered(reader.res)
  /\ PageAnswered(reader.prev)
  /\ reader.at = reader.prevAt
  /\ reader.res.query.limit = reader.prev.query.limit
  /\ reader.res.query.orderByAmount = reader.prev.query.orderByAmount
  /\ reader.res.query.page # reader.prev.query.page

\* pages of the same store are disjoint and together hold every matching order
PagesPartition ==
  TwoPagesOfOneList =>
    /\ IdsOnPage(reader.res) \cap IdsOnPage(reader.prev) = {}
    /\ reader.res.meta.total_pages = 2 =>
         IdsOnPage(reader.res) \cup IdsOnPage(reader.prev) = {o.id : o \in OrdersRead}

\* C28: getAllTransactions with orderByAmount answers page p of limit l with the
\* elements at positions (p-1)*l .. p*l-1 of the matching orders sorted by total
\* line quantity; the pages of one store are disjoint and cover every order;
\* total_pages = ceil(total / l), next_page = null iff p >= total_pages and
\* prev_page = null iff p = 1.
PagesOfSortedOrders ==
  /\ PageIsSliceOfSorted
  /\ PagesPartition
  /\ PageMetaRight

\* ------------------------------------------------------- removal of books
\* one order of book b1 was placed earlier
InitShelf ==
  /\ revision = "current"
  /\ FullShelf
  /\ InitIdle
  /\ orders = OrdersOfQuantities(<<1>>)
  /\ order_items = LinesOfQuantities(<<1>>)

\* updateBook requests that change the price, and deleteBook requests
Change(a) ==
  \/ \E b \in BookIds : \E d \in Updates :
       d.title = "" /\ d.genre_id = "" /\ d.price # 0 /\ UpdateReceive(a, b, d)
  \/ UpdateFind(a)
  \/ UpdateWrite(a)
  \/ \E b \in BookIds : DeleteReceive(a, b)
  \/ DeleteFind(a)
  \/ DeleteWrite(a)

\* one request to a handler that reads books
BookReads ==
  \/ reader.n = 0 /\ \E b \in BookIds : GetBookDetail(b)
  \/ reader.n = 0 /\ \E g \in GenreIds \cup {""} : GetBooksStart(g)
  \/ \E q \in reader.pending : GetBooksQuery(q)

\* books are changed and removed by two handlers while a request reads books
NextShelf == (\E a \in Admins : Change(a)) \/ BookReads

SpecShelf == InitShelf /\ [][NextShelf]_vars

\* book b was removed: a deleteBook for it has succeeded
Removed(b) == books[b].deleted_at

\* handler a sends the response to an updateBook or deleteBook for book b
AnswersFor(a, b) ==
  /\ admin[a].pc # "idle"
  /\ admin'[a].pc = "idle"
  /\ admin[a].book_id = b

\* the read handler is answered the findMany of getAllBooks or getBooksByGenre
ListsBooks ==
  /\ reader.pc = "books"
  /\ "findMany" \in reader.pending
  /\ reader' # reader
  /\ "findMany" \notin reader'.pending

\* the books that this findMany returned
BooksListed == IF reader'.pc = "idle" THEN reader'.res.found ELSE reader'.bookRows

\* the read handler answers getBookDetail for book b
AnswersDetail(b) ==
  /\ reader.pc = "idle"
  /\ reader'.res.op = "book"
  /\ reader' # reader
  /\ reader'.res.book_id = b

\* C29: once a book is removed it stays removed; from then on every response of
\* getBookDetail, updateBook and deleteBook for it is 'Book not found' (404) and
\* these handlers change nothing, getAllBooks and getBooksByGenre do not list
\* it, and its row and the order lines that reference it remain.
RemovalIsFinal ==
  [][\A b \in BookIds :
       Removed(b) =>
         /\ Removed(b)'
         /\ \A a \in Admins : AnswersFor(a, b) => admin'[a].status = 404
         /\ (\E a \in Admins : admin'[a] # admin[a] /\ admin[a].book_id = b)
              => UNCHANGED store
         /\ AnswersDetail(b) => reader'.res.status = 404
         /\ ListsBooks => b \notin BooksListed
         /\ order_items' = order_items]_vars

\* what holds of the handlers that read, and of the rows, once a book is removed
RemovedBookNotRead ==
  [][\A b \in BookIds :
       Removed(b) =>
         /\ Removed(b)'
         /\ AnswersDetail(b) => reader'.res.status = 404
         /\ ListsBooks => b \notin BooksListed
         /\ order_items' = order_items]_vars

\* the requests that came after the removal of their book are answered 404
LateRequestsRefused ==
  \A a \in Admins :
    (admin[a].pc = "idle" /\ admin[a].late /\ admin[a].op \in {"update", "delete"})
    => admin[a].status = 404

\* ------------------------------------------------- the protect middleware
\* jwt.verify: the class of the error it throws for a token, "" when it returns
\* the payload; TokenExpiredError is a subclass of JsonWebTokenError
JwtError(t) ==
  CASE t.kind = "valid" -> ""
    [] t.kind = "expired" -> "TokenExpiredError"
    [] OTHER -> "JsonWebTokenError"

IsJsonWebTokenError(e) == e \in {"JsonWebTokenError", "TokenExpiredError"}

\* verifyToken: the payload, or the error it rethrows
verifyToken(t) ==
  LET e == JwtError(t)
  IN IF e = "" THEN [thrown |-> "", decoded |-> t.id]
     ELSE IF IsJsonWebTokenError(e)
          THEN [thrown |-> "Invalid token", decoded |-> ""]
          ELSE IF e = "TokenExpiredError"
               THEN [thrown |-> "Token expired", decoded |-> ""]
               ELSE [thrown |-> "Token verification failed", decoded |-> ""]

\* startsWith('Bearer') is case-sensitive
StartsWithBearer(h) == h.scheme = "Bearer"

\* res.status(401).json({ status: 'fail', message })
Send401(a, message) ==
  [a EXCEPT !.sent = @ + 1, !.status = 401, !.message = message]

\* a request reaches protect
ProtectReceive(h) ==
  /\ auth.pc = "idle"
  /\ auth' = [NoAuth EXCEPT !.pc = "header", !.header = h]
  /\ UNCHANGED <<admin, reader, revision, users, store, locks, pc, req, bookMap, tx, resp,
                 initialStock, rolledBack>>

\* the test of the header, the token taken from it, verifyToken and its catch
ProtectVerify ==
  /\ auth.pc = "header"
  /\ IF StartsWithBearer(auth.header)
       THEN LET token == auth.header.token
                v == verifyToken(token)
            IN IF v.thrown # ""
                 THEN auth' = [Send401([auth EXCEPT !.token = token],
                                       "Not authorized, token failed")
                                 EXCEPT !.pc = "done"]
                 ELSE IF v.decoded = ""
                        THEN auth' = [Send401([auth EXCEPT !.token = token],
                                              "Not authorized, token failed")
                                        EXCEPT !.pc = "done"]
                        ELSE auth' = [auth EXCEPT !.pc = "find", !.token = token,
                                                  !.decoded = v.decoded]
       ELSE auth' = [auth EXCEPT !.pc = "tail"]
  /\ UNCHANGED <<admin, reader, revision, users, store, locks, pc, req, bookMap, tx, resp,
                 initialStock, rolledBack>>

\* a ProtectFind that answers 401 for a missing user and goes on to next()
ProtectFindGoesOn(f) ==
  /\ auth.pc = "find"
  /\ IF f # "none"
       THEN auth' = [Send401([auth EXCEPT !.failure = f], "Not authorized, token failed")
                       EXCEPT !.pc = "done"]
       ELSE IF auth.decoded \notin users
              THEN auth' = [Send401(auth, "User belonging to this token no longer exists")
                              EXCEPT !.pc = "tail", !.nexts = @ + 1]
              ELSE auth' = [auth EXCEPT !.pc = "tail", !.user = auth.decoded,
                                        !.nexts = @ + 1]
  /\ UNCHANGED <<admin, reader, revision, users, store, locks, pc, req, bookMap, tx, resp,
                 initialStock, rolledBack>>

\* prisma.user.findUnique (f: the failure of the query, "none" when it answers),
\* req.user = user, next(); the catch answers 401 when the query throws
ProtectFind(f) ==
  /\ auth.pc = "find"
  /\ IF f # "none"
       THEN auth' = [Send401([auth EXCEPT !.failure = f], "Not authorized, token failed")
                       EXCEPT !.pc = "done"]
       ELSE IF auth.decoded \notin users
              THEN auth' = [Send401(auth, "User belonging to this token no longer exists")
                              EXCEPT !.pc = "done"]
              ELSE auth' = [auth EXCEPT !.pc = "tail", !.user = auth.decoded,
                                        !.nexts = @ + 1]
  /\ UNCHANGED <<admin, reader, revision, users, store, locks, pc, req, bookMap, tx, resp,
                 initialStock, rolledBack>>

\* after the try block: if (!token) 401 'Not authorized, no token'
ProtectTail ==
  /\ auth.pc = "tail"
  /\ IF auth.token = NoToken
       THEN auth' = [Send401(auth, "Not authorized, no token") EXCEPT !.pc = "done"]
       ELSE auth' = [auth EXCEPT !.pc = "done"]
  /\ UNCHANGED <<admin, reader, revision, users, store, locks, pc, req, bookMap, tx, resp,
                 initialStock, rolledBack>>

\* the middleware is done with the request; the next one may come
ProtectNext ==
  /\ auth.pc = "done"
  /\ auth' = NoAuth
  /\ UNCHANGED <<admin, reader, revision, users, store, locks, pc, req, bookMap, tx, resp,
                 initialStock, rolledBack>>

NextProtect ==
  \/ \E h \in Headers : ProtectReceive(h)
  \/ ProtectVerify
  \/ \E f \in StoreFailures \cup {"none"} : ProtectFind(f)
  \/ ProtectTail
  \/ ProtectNext

SpecProtect == InitShop /\ [][NextProtect]_vars

\* the request carries a valid Bearer token of a user that exists, and the
\* lookup of the user answered
Authorized ==
  /\ auth.header.scheme = "Bearer"
  /\ auth.header.token.kind = "valid"
  /\ auth.header.token.id \in users
  /\ auth.failure = "none"

\* C30: protect produces exactly one outcome per request: when it is done it
\* has either called next() once with req.user set to an existing user (the
\* request carried a valid Bearer token of a user that exists) and sent nothing,
\* or sent exactly one 401 and not called next(); at no time has it done both.
ProtectOneOutcome ==
  /\ auth.nexts + auth.sent <= 1
  /\ auth.sent = 1 => auth.status = 401 /\ auth.user = ""
  /\ auth.nexts = 1 => auth.user \in users /\ auth.user = auth.header.token.id
  /\ auth.pc = "done" =>
       /\ auth.nexts + auth.sent = 1
       /\ auth.nexts = 1 <=> Authorized

\* a valid token of a user that is gone was answered 401, next() not called
DeletedUserRefused ==
  /\ auth.pc = "done"
  /\ auth.header.scheme = "Bearer"
  /\ auth.header.token.kind = "valid"
  /\ auth.header.token.id = UnknownUser
  /\ auth.sent = 1
  /\ auth.nexts = 0
  /\ auth.message = "User belonging to this token no longer exists"

====
